---- MODULE Spec2Model ----
(***************************************************************************)
(* Model of the Branding & Animation Studio API (src/main.py,              *)
(* src/schemas.py): the FastAPI handlers over the document store, the      *)
(* pydantic schemas, the webhook notification and the seed endpoint.       *)
(*                                                                         *)
(* database.py (db, create_document, get_documents) is not part of the     *)
(* sources at hand; the two store operations are modelled from section 4.2 *)
(* of the specification.                                                   *)
(***************************************************************************)
EXTENDS Integers, Sequences, FiniteSets, TLC

VARIABLES
    env,      \* the process environment read through os.getenv
    db,       \* the store handle imported from database: None or "handle"
    store,    \* the document store: collection name -> sequence of documents
    nextOid,  \* the next ObjectId the store assigns
    last,     \* the latest request: endpoint, input, status, body, calls made
    created   \* history: every {id} answer of a creation endpoint, with its payload

vars == <<env, db, store, nextOid, last, created>>

(*************************** bounds of the model ***************************)

\* Requests that insert are accepted while the store holds fewer documents.
MaxDocs == 2
\* The largest explicit limit query parameter that is tried.
MaxLimit == 1
\* The most collections created out of band that /test may see.
MaxExtraCollections == 11

(***************************** python values *******************************)

None == "None"

\* Python truthiness of an Optional[str]: None and "" are falsy.
Truthy(v) == v # None /\ v # ""

\* d.get(k) for a dict of strings: None when the key is absent.
Get(d, k) == IF k \in DOMAIN d THEN d[k] ELSE None

\* The empty dict.
EmptyDict == <<>>

HexDigits == <<"0", "1", "2", "3", "4", "5", "6", "7",
               "8", "9", "a", "b", "c", "d", "e", "f">>

\* str(oid) of an ObjectId: its hex digits (two here instead of 24).  The
\* string of an id is a sequence of characters.
StrObjectId(oid) == <<HexDigits[((oid \div 16) % 16) + 1], HexDigits[(oid % 16) + 1]>>

\* str(None)
StrNone == <<"N", "o", "n", "e">>

\* s[:n] for n >= 0.
Slice(s, n) == SubSeq(s, 1, IF n < Len(s) THEN n ELSE Len(s))

(******************************* schemas ***********************************)

\* pydantic's HttpUrl: the accepted inputs, each with the form the validated
\* URL takes (an empty path becomes "/"); anything else is rejected.
HttpUrl ==
    [u \in {"https://linear.app", "https://vercel.com", "https://raycast.com",
            "https://cdn.example.com/nova.png",
            "https://images.unsplash.com/photo-1512295767273-ac109ac3acfa?q=80&w=1600&auto=format&fit=crop",
            "https://images.unsplash.com/photo-1531746020798-e6953c6e8e04?q=80&w=1600&auto=format&fit=crop",
            "https://images.unsplash.com/photo-1495567720989-cebdbdd97913?q=80&w=1600&auto=format&fit=crop",
            "https://images.unsplash.com/photo-1545239351-1141bd82e8a6?q=80&w=1600&auto=format&fit=crop",
            "https://avatars.githubusercontent.com/u/56582216?s=200&v=4",
            "https://assets.vercel.com/image/upload/q_auto/front/favicon/vercel/57x57.png",
            "https://avatars.githubusercontent.com/u/57921518?s=200&v=4"} |->
        CASE u = "https://linear.app" -> "https://linear.app/"
          [] u = "https://vercel.com" -> "https://vercel.com/"
          [] u = "https://raycast.com" -> "https://raycast.com/"
          [] OTHER -> u]

\* pydantic's EmailStr: the accepted inputs.
EmailStr == {"ada@example.com"}

Project ==
    [required |-> {"title", "category"},
     urls     |-> {"image_url", "video_url"},
     emails   |-> {},
     defaults |-> [description |-> None, image_url |-> None, video_url |-> None,
                   tags |-> <<>>, featured |-> FALSE, order |-> None]]

Testimonial ==
    [required |-> {"name", "quote"},
     urls     |-> {"avatar_url"},
     emails   |-> {},
     defaults |-> [role |-> None, company |-> None, avatar_url |-> None]]

Client ==
    [required |-> {"name"},
     urls     |-> {"website", "logo_url"},
     emails   |-> {},
     defaults |-> [website |-> None, logo_url |-> None]]

\* Faulty variant: email declared as str.
Message_plain_email ==
    [required |-> {"name", "email", "message"},
     urls     |-> {},
     emails   |-> {},
     defaults |-> [company |-> None]]

Message ==
    [required |-> {"name", "email", "message"},
     urls     |-> {},
     emails   |-> {"email"},
     defaults |-> [company |-> None]]

SchemaFields(schema) == schema.required \cup DOMAIN schema.defaults

\* BaseModel validation: every required field is given, every given URL and
\* email is well formed.  Unknown fields are ignored.
Valid(schema, payload) ==
    /\ schema.required \subseteq DOMAIN payload
    /\ \A f \in schema.urls \cap DOMAIN payload : payload[f] \in DOMAIN HttpUrl
    /\ \A f \in schema.emails \cap DOMAIN payload : payload[f] \in EmailStr

\* The validated model: the schema's fields, the given values (URLs in their
\* validated form), the defaults for the optional fields that are not given.
Construct(schema, payload) ==
    [f \in SchemaFields(schema) |->
        IF f \in DOMAIN payload
        THEN IF f \in schema.urls THEN HttpUrl[payload[f]] ELSE payload[f]
        ELSE schema.defaults[f]]

(***************************** document store ******************************)

Collections == {"project", "testimonial", "client", "message"}

TotalDocs(st) ==
    Len(st["project"]) + Len(st["testimonial"]) + Len(st["client"]) + Len(st["message"])

\* The store accepts an insert: the handle exists and the write is not rejected.
Inserts(ok) == db # None /\ ok

\* insert(collection, record): the record's fields become a new document
\* that carries the store-assigned identifier.
create_document(st, collection_name, data, oid) ==
    [st EXCEPT ![collection_name] = Append(@, data @@ ("_id" :> oid))]

\* Exact match on every field of the filter.
Matches(doc, filt) == \A k \in DOMAIN filt : k \in DOMAIN doc /\ doc[k] = filt[k]

RECURSIVE FilterSeq(_, _)
FilterSeq(docs, filt) ==
    IF docs = <<>>
    THEN <<>>
    ELSE IF Matches(Head(docs), filt)
         THEN <<Head(docs)>> \o FilterSeq(Tail(docs), filt)
         ELSE FilterSeq(Tail(docs), filt)

\* find(collection, filter, limit): at most limit matching documents, in
\* insertion order.
get_documents(st, collection_name, filter_dict, limit) ==
    Slice(FilterSeq(st[collection_name], filter_dict), limit)

(******************************* helpers ***********************************)

\* Faulty variant: "_id" is not popped.
serialize_doc_keeps_id(doc) ==
    IF DOMAIN doc = {}
    THEN doc
    ELSE [k \in DOMAIN doc \cup {"id"} |->
            IF k = "id"
            THEN IF "_id" \in DOMAIN doc THEN StrObjectId(doc["_id"]) ELSE StrNone
            ELSE doc[k]]

serialize_doc(doc) ==
    IF DOMAIN doc = {}
    THEN doc
    ELSE [k \in (DOMAIN doc \ {"_id"}) \cup {"id"} |->
            IF k = "id"
            THEN IF "_id" \in DOMAIN doc THEN StrObjectId(doc["_id"]) ELSE StrNone
            ELSE doc[k]]

SerializeAll(docs) == [i \in 1..Len(docs) |-> serialize_doc(docs[i])]

\* One entry of the log of calls a handler makes.
Call(fn, arg, result) == [fn |-> fn, arg |-> arg, result |-> result]

InsertCall(collection_name, ok) ==
    Call("create_document", collection_name, IF Inserts(ok) THEN "ok" ELSE "error")

Response(op, req, status, body, calls) ==
    [op |-> op, req |-> req, status |-> status, body |-> body, calls |-> calls]

\* What the handlers answer when the store raises: HTTPException(500, str(e)).
StoreError == [detail |-> "store error"]

\* FastAPI's answer to a body the schema rejects: 422 with the offending fields.
InvalidFields(schema, payload) ==
    (schema.required \ DOMAIN payload)
        \cup {f \in schema.urls \cap DOMAIN payload : payload[f] \notin DOMAIN HttpUrl}
        \cup {f \in schema.emails \cap DOMAIN payload : payload[f] \notin EmailStr}

(******************************* inputs ************************************)

ProjectPayloads ==
    {[title |-> "NOVA", category |-> "Motion", description |-> "A mono grid.",
      image_url |-> "https://cdn.example.com/nova.png",
      video_url |-> "https://cdn.example.com/nova.png",
      tags |-> <<"Identity">>, featured |-> TRUE, order |-> 1],
     [title |-> "Pico", category |-> ""],
     [title |-> "Orbit", category |-> "Branding", image_url |-> "https://linear.app",
      utm |-> "newsletter"],
     [category |-> "Motion"],
     [title |-> "NOVA"],
     [title |-> "NOVA", category |-> "Motion", image_url |-> "not a url"],
     [title |-> "NOVA", category |-> "Motion", video_url |-> "not a url"]}

TestimonialPayloads ==
    {[name |-> "Riya Patel", quote |-> "Crisp motion work."],
     [quote |-> "Crisp motion work."],
     [name |-> "Riya Patel"],
     [name |-> "Riya Patel", quote |-> "Crisp motion work.", avatar_url |-> "not a url"]}

ClientPayloads ==
    {[name |-> "Vercel", website |-> "https://vercel.com"],
     [website |-> "https://vercel.com"],
     [name |-> "Vercel", website |-> "not a url"],
     [name |-> "Vercel", logo_url |-> "not a url"]}

MessagePayloads ==
    {[name |-> "Ada", email |-> "ada@example.com", message |-> "Hello"],
     [email |-> "ada@example.com", message |-> "Hello"],
     [name |-> "Ada", message |-> "Hello"],
     [name |-> "Ada", email |-> "ada@example.com"],
     [name |-> "Ada", email |-> "not an email", message |-> "Hello"]}

\* Query strings: a parameter is given or not.
LimitParams == {EmptyDict} \cup {[limit |-> n] : n \in 0..MaxLimit}

CategoryParams == {EmptyDict} \cup {[category |-> c] : c \in {"", "Motion"}}

FeaturedParams == {EmptyDict} \cup {[featured |-> b] : b \in BOOLEAN}

ProjectQueries ==
    {c @@ f @@ l : c \in CategoryParams, f \in FeaturedParams, l \in LimitParams}

\* The outcomes of requests.post(webhook, json=payload, timeout=5).
WebhookOutcomes == {"2xx", "non-2xx", "timeout", "connection refused", "error"}

\* requests.post returns a response for any status code and raises otherwise.
Raises(outcome) == outcome \notin {"2xx", "non-2xx"}

(****************************** endpoints **********************************)

read_root ==
    /\ last' = Response("read_root", EmptyDict, 200,
                        [message |-> "Studio API running"], <<>>)
    /\ UNCHANGED <<env, db, store, nextOid, created>>

\* POST of a body: FastAPI validates it against the schema and calls the
\* handler only with a valid model; the handler inserts it and answers {id},
\* or 500 when the store raises.
CreateEndpoint(op, schema, collection_name, payload, ok) ==
    /\ IF ~Valid(schema, payload)
       THEN /\ last' = Response(op, payload, 422,
                                [detail |-> InvalidFields(schema, payload)], <<>>)
            /\ UNCHANGED <<store, nextOid, created>>
       ELSE IF Inserts(ok)
       THEN /\ store' = create_document(store, collection_name,
                                         Construct(schema, payload), nextOid)
            /\ nextOid' = nextOid + 1
            /\ last' = Response(op, payload, 200, [id |-> StrObjectId(nextOid)],
                                <<InsertCall(collection_name, ok)>>)
            /\ created' = created \cup
                    {[kind |-> collection_name, id |-> StrObjectId(nextOid),
                      payload |-> payload]}
       ELSE /\ last' = Response(op, payload, 500, StoreError,
                                <<InsertCall(collection_name, ok)>>)
            /\ UNCHANGED <<store, nextOid, created>>
    /\ UNCHANGED <<env, db>>

create_project ==
    /\ TotalDocs(store) < MaxDocs
    /\ \E payload \in ProjectPayloads, ok \in BOOLEAN :
        CreateEndpoint("create_project", Project, "project", payload, ok)

create_testimonial ==
    /\ TotalDocs(store) < MaxDocs
    /\ \E payload \in TestimonialPayloads, ok \in BOOLEAN :
        CreateEndpoint("create_testimonial", Testimonial, "testimonial", payload, ok)

\* Faulty variant: the collection name of another handler.
create_client_in_projects ==
    /\ TotalDocs(store) < MaxDocs
    /\ \E payload \in ClientPayloads, ok \in BOOLEAN :
        CreateEndpoint("create_client", Client, "project", payload, ok)

create_client ==
    /\ TotalDocs(store) < MaxDocs
    /\ \E payload \in ClientPayloads, ok \in BOOLEAN :
        CreateEndpoint("create_client", Client, "client", payload, ok)

\* GET of a listing: the documents get_documents returns, each serialized,
\* or 500 when the store raises (there is no store handle).
ListEndpoint(op, collection_name, query, filt, limit) ==
    last' = IF db # None
            THEN Response(op, query, 200,
                          SerializeAll(get_documents(store, collection_name, filt, limit)),
                          <<Call("get_documents", collection_name, "ok")>>)
            ELSE Response(op, query, 500, StoreError,
                          <<Call("get_documents", collection_name, "error")>>)

DefaultProjectLimit == 100
DefaultTestimonialLimit == 50
DefaultClientLimit == 100

\* Faulty variant: "if featured:" instead of "if featured is not None:".
ProjectFilter_truthy(query) ==
    (IF Truthy(Get(query, "category")) THEN [category |-> query["category"]] ELSE EmptyDict)
        @@ (IF "featured" \in DOMAIN query /\ query["featured"]
            THEN [featured |-> query["featured"]]
            ELSE EmptyDict)

\* filt of list_projects: category when it is truthy, featured when it is
\* not None.
ProjectFilter(query) ==
    (IF Truthy(Get(query, "category")) THEN [category |-> query["category"]] ELSE EmptyDict)
        @@ (IF "featured" \in DOMAIN query THEN [featured |-> query["featured"]] ELSE EmptyDict)

\* Faulty variant: the limit parameter is not passed on.
Limit_default(query, default) == default

Limit(query, default) == IF "limit" \in DOMAIN query THEN query["limit"] ELSE default

list_projects ==
    /\ \E query \in ProjectQueries :
        ListEndpoint("list_projects", "project", query, ProjectFilter(query),
                     Limit(query, DefaultProjectLimit))
    /\ UNCHANGED <<env, db, store, nextOid, created>>

list_testimonials ==
    /\ \E query \in LimitParams :
        ListEndpoint("list_testimonials", "testimonial", query, EmptyDict,
                     Limit(query, DefaultTestimonialLimit))
    /\ UNCHANGED <<env, db, store, nextOid, created>>

list_clients ==
    /\ \E query \in LimitParams :
        ListEndpoint("list_clients", "client", query, EmptyDict,
                     Limit(query, DefaultClientLimit))
    /\ UNCHANGED <<env, db, store, nextOid, created>>

\* What the inner "except Exception" catches: everything requests.post raises.
CaughtOutcomes == {"timeout", "connection refused", "error"}

NotificationEscapes_uncaught(outcome) == Raises(outcome)

\* The inner "try: ... except Exception: pass" around the notification: an
\* outcome leaves it only if it raises something the except does not catch.
NotificationEscapes(outcome) == Raises(outcome) /\ outcome \notin CaughtOutcomes

Notification_always(webhook, inserted, outcome) ==
    IF Truthy(webhook) THEN <<Call("requests.post", webhook, outcome)>> ELSE <<>>

\* The calls of the notification block, which runs after create_document has
\* returned, and posts if the webhook URL is truthy.
Notification(webhook, inserted, outcome) ==
    IF inserted /\ Truthy(webhook)
    THEN <<Call("requests.post", webhook, outcome)>>
    ELSE <<>>

\* POST /api/messages: the insert, then the best-effort notification.
submit_message ==
    /\ TotalDocs(store) < MaxDocs
    /\ \E payload \in MessagePayloads, ok \in BOOLEAN, outcome \in WebhookOutcomes :
        LET webhook == env.EMAIL_WEBHOOK_URL
            notify == Notification(webhook, Inserts(ok), outcome)
        IN  IF ~Valid(Message, payload)
            THEN /\ last' = Response("submit_message", payload, 422,
                                     [detail |-> InvalidFields(Message, payload)], <<>>)
                 /\ UNCHANGED <<store, nextOid, created>>
            ELSE IF Inserts(ok)
            THEN /\ store' = create_document(store, "message",
                                              Construct(Message, payload), nextOid)
                 /\ nextOid' = nextOid + 1
                 /\ IF Truthy(webhook) /\ NotificationEscapes(outcome)
                    THEN /\ last' = Response("submit_message", payload, 500, StoreError,
                                             <<InsertCall("message", ok)>> \o notify)
                         /\ UNCHANGED created
                    ELSE /\ last' = Response("submit_message", payload, 200,
                                             [id |-> StrObjectId(nextOid),
                                              status |-> "received"],
                                             <<InsertCall("message", ok)>> \o notify)
                         /\ created' = created \cup
                                 {[kind |-> "message", id |-> StrObjectId(nextOid),
                                   payload |-> payload]}
            ELSE /\ last' = Response("submit_message", payload, 500, StoreError,
                                     <<InsertCall("message", ok)>> \o notify)
                 /\ UNCHANGED <<store, nextOid, created>>
    /\ UNCHANGED <<env, db>>

(********************************* seed ************************************)

sample_projects ==
    <<[title |-> "NOVA - Modular Branding Kit", category |-> "Branding",
       description |-> "A restrained visual system with flexible type scales and a mono grid.",
       image_url |-> "https://images.unsplash.com/photo-1512295767273-ac109ac3acfa?q=80&w=1600&auto=format&fit=crop",
       tags |-> <<"Identity", "Guidelines">>, featured |-> TRUE, order |-> 1],
      [title |-> "Eclipse OS - Motion Language", category |-> "Motion",
       description |-> "A responsive motion spec for product UI and launch content.",
       image_url |-> "https://images.unsplash.com/photo-1531746020798-e6953c6e8e04?q=80&w=1600&auto=format&fit=crop",
       tags |-> <<"UI", "Spec">>, featured |-> TRUE, order |-> 2],
      [title |-> "Orbit - 3D Brand Toolkit", category |-> "3D",
       description |-> "Procedural materials and light rigs for consistent content at scale.",
       image_url |-> "https://images.unsplash.com/photo-1495567720989-cebdbdd97913?q=80&w=1600&auto=format&fit=crop",
       tags |-> <<"Lookdev", "Toolkit">>, featured |-> FALSE, order |-> 3],
      [title |-> "Pico - Character Animation Pack", category |-> "Animation",
       description |-> "A library of expressive micro-animations for onboarding and support.",
       image_url |-> "https://images.unsplash.com/photo-1545239351-1141bd82e8a6?q=80&w=1600&auto=format&fit=crop",
       tags |-> <<"Rigging", "2D">>, featured |-> FALSE, order |-> 4]>>

sample_testimonials ==
    <<[name |-> "Alex Kim", role |-> "Head of Brand", company |-> "Vector",
       quote |-> "They distilled our messy vision into a simple system we use every day."],
      [name |-> "Riya Patel", role |-> "Product Design Lead", company |-> "Sona",
       quote |-> "Crisp motion work that elevated the whole product."]>>

sample_clients ==
    <<[name |-> "Linear", website |-> "https://linear.app",
       logo_url |-> "https://avatars.githubusercontent.com/u/56582216?s=200&v=4"],
      [name |-> "Vercel", website |-> "https://vercel.com",
       logo_url |-> "https://assets.vercel.com/image/upload/q_auto/front/favicon/vercel/57x57.png"],
      [name |-> "Raycast", website |-> "https://raycast.com",
       logo_url |-> "https://avatars.githubusercontent.com/u/57921518?s=200&v=4"]>>

Sample(collection_name, schema, payload) ==
    [collection |-> collection_name, schema |-> schema, payload |-> payload]

\* The samples in the order the three loops visit them.
Samples ==
    [i \in 1..Len(sample_projects) |-> Sample("project", Project, sample_projects[i])]
        \o [i \in 1..Len(sample_testimonials) |->
                Sample("testimonial", Testimonial, sample_testimonials[i])]
        \o [i \in 1..Len(sample_clients) |-> Sample("client", Client, sample_clients[i])]

\* Faulty variant: the check without "not admin_token".
Unauthorized_header_only(admin_token, x_admin_token) == x_admin_token # admin_token

\* The first statement of the handler: 401 unless ADMIN_TOKEN is truthy and
\* the header equals it.
Unauthorized(admin_token, x_admin_token) ==
    ~Truthy(admin_token) \/ x_admin_token # admin_token

\* One pass of a loop body: "try: create_document(coll, Schema(**p))
\* except Exception: pass".  acc carries the store, the next ObjectId and the
\* calls made so far; rejected holds the samples whose write the store rejects.
SeedOne(acc, i, rejected) ==
    LET s == Samples[i]
    IN  IF ~Valid(s.schema, s.payload)
        THEN acc
        ELSE IF Inserts(i \notin rejected)
        THEN [store |-> create_document(acc.store, s.collection,
                                        Construct(s.schema, s.payload), acc.oid),
              oid   |-> acc.oid + 1,
              calls |-> Append(acc.calls, Call("create_document", i, "ok"))]
        ELSE [acc EXCEPT !.calls = Append(@, Call("create_document", i, "error"))]

\* Faulty variant: no try/except in the loop body, the first rejected write ends the batch.
RECURSIVE SeedLoop_abort(_, _, _)
SeedLoop_abort(acc, i, rejected) ==
    IF i > Len(Samples) \/ (acc.calls # <<>> /\ acc.calls[Len(acc.calls)].result = "error")
    THEN acc
    ELSE SeedLoop_abort(SeedOne(acc, i, rejected), i + 1, rejected)

RECURSIVE SeedLoop(_, _, _)
SeedLoop(acc, i, rejected) ==
    IF i > Len(Samples)
    THEN acc
    ELSE SeedLoop(SeedOne(acc, i, rejected), i + 1, rejected)

AdminHeaders == {None, "", "wrong", "s3cret"}

\* POST /api/seed, for the given family of sets of rejected writes.
seed_demo_content(rejections) ==
    /\ TotalDocs(store) < MaxDocs
    /\ \E x_admin_token \in AdminHeaders, rejected \in rejections :
        IF Unauthorized(env.ADMIN_TOKEN, x_admin_token)
        THEN /\ last' = Response("seed_demo_content", x_admin_token, 401,
                                 [detail |-> "Unauthorized"], <<>>)
             /\ UNCHANGED <<store, nextOid>>
        ELSE LET done == SeedLoop([store |-> store, oid |-> nextOid, calls |-> <<>>],
                                  1, rejected)
             IN  /\ store' = done.store
                 /\ nextOid' = done.oid
                 /\ last' = Response("seed_demo_content", x_admin_token, 200,
                                     [status |-> "ok"], done.calls)
    /\ UNCHANGED <<env, db, created>>

(********************************* /test ***********************************)

CollectionsShown == 10

ExtraCollectionNames ==
    <<"analytics", "sessions", "users", "logs", "drafts", "media", "tags",
      "events", "audit", "jobs", "cache", "archive">>

NameIf(st, collection_name) ==
    IF Len(st[collection_name]) > 0 THEN <<collection_name>> ELSE <<>>

\* db.list_collection_names(): the collections that hold documents and the
\* first `extra` of those created out of band.
list_collection_names(st, extra) ==
    NameIf(st, "project") \o NameIf(st, "testimonial") \o NameIf(st, "client")
        \o NameIf(st, "message") \o SubSeq(ExtraCollectionNames, 1, extra)

\* Faulty variant: the list is not sliced.
ShownCollections_all(collections) == collections

\* collections[:10]
ShownCollections(collections) == Slice(collections, CollectionsShown)

\* What the store does during GET /test: nothing wrong, db.name raising, or
\* db.list_collection_names() raising.
StoreFaults == {"none", "name", "list_collection_names"}

SetOrNot(v) == IF Truthy(v) THEN "Set" ELSE "Not Set"

\* The body of test_database; every exception ends in a field of the answer.
TestResponse(extra, fault) ==
    LET response ==
            [backend |-> "Running", database |-> "Not Available",
             database_url |-> None, database_name |-> None,
             connection_status |-> "Not Connected", collections |-> <<>>]
        checked ==
            IF db = None
            THEN [response EXCEPT !.database = "Available but not initialized"]
            ELSE IF fault = "name"
            THEN [response EXCEPT !.database = "Error", !.database_url = "Configured"]
            ELSE IF fault = "list_collection_names"
            THEN [response EXCEPT !.database = "Connected but Error",
                                  !.database_url = "Configured",
                                  !.database_name = "studio",
                                  !.connection_status = "Connected"]
            ELSE [response EXCEPT !.database = "Connected & Working",
                                  !.database_url = "Configured",
                                  !.database_name = "studio",
                                  !.connection_status = "Connected",
                                  !.collections =
                                      ShownCollections(list_collection_names(store, extra))]
    IN  [checked EXCEPT !.database_url = SetOrNot(env.DATABASE_URL),
                        !.database_name = SetOrNot(env.DATABASE_NAME)]

test_database ==
    /\ \E extra \in {0, MaxExtraCollections}, fault \in StoreFaults :
        last' = Response("test_database", [extra |-> extra, fault |-> fault], 200,
                         TestResponse(extra, fault), <<>>)
    /\ UNCHANGED <<env, db, store, nextOid, created>>

(**************************** specifications *******************************)

EmptyStore == [c \in Collections |-> <<>>]

Startup == Response("startup", EmptyDict, 0, EmptyDict, <<>>)

\* The deployments: everything configured, the secrets set to empty strings,
\* nothing configured (and so no store handle).
Deployments ==
    {[env |-> [ADMIN_TOKEN |-> "s3cret",
               EMAIL_WEBHOOK_URL |-> "https://hooks.example.com/mail",
               DATABASE_URL |-> "mongodb://localhost:27017", DATABASE_NAME |-> "studio"],
      db  |-> "handle"],
     [env |-> [ADMIN_TOKEN |-> "", EMAIL_WEBHOOK_URL |-> "",
               DATABASE_URL |-> "mongodb://localhost:27017", DATABASE_NAME |-> "studio"],
      db  |-> "handle"],
     [env |-> [ADMIN_TOKEN |-> None, EMAIL_WEBHOOK_URL |-> None,
               DATABASE_URL |-> None, DATABASE_NAME |-> None],
      db  |-> None]}

Init ==
    /\ \E d \in Deployments : env = d.env /\ db = d.db
    /\ store = EmptyStore
    /\ nextOid = 1
    /\ last = Startup
    /\ created = {}

\* The rejected writes tried where the seed runs among the other endpoints.
SomeRejections == {{}, {2, 5, 9}, 1..Len(Samples)}

Next ==
    \/ read_root
    \/ create_project
    \/ list_projects
    \/ create_testimonial
    \/ list_testimonials
    \/ create_client
    \/ list_clients
    \/ submit_message
    \/ seed_demo_content(SomeRejections)
    \/ test_database

Spec == Init /\ [][Next]_vars

\* The seed endpoint alone: every admin token with and without a store
\* handle, every header, every set of rejected writes.
InitSeed ==
    /\ env \in {[ADMIN_TOKEN |-> t, EMAIL_WEBHOOK_URL |-> None,
                 DATABASE_URL |-> "mongodb://localhost:27017",
                 DATABASE_NAME |-> "studio"] : t \in {None, "", "s3cret"}}
    /\ db \in {None, "handle"}
    /\ store = EmptyStore
    /\ nextOid = 1
    /\ last = Startup
    /\ created = {}

NextSeed == seed_demo_content(SUBSET (1..Len(Samples)))

SpecSeed == InitSeed /\ [][NextSeed]_vars

(******************************* properties ********************************)

CreateOps == {"create_project", "create_testimonial", "create_client", "submit_message"}

ListOps == {"list_projects", "list_testimonials", "list_clients"}

ReadOps == ListOps \cup {"read_root", "test_database"}

Listed(op) ==
    CASE op = "list_projects" -> "project"
      [] op = "list_testimonials" -> "testimonial"
      [] op = "list_clients" -> "client"

Inserted(op) ==
    CASE op = "create_project" -> "project"
      [] op = "create_testimonial" -> "testimonial"
      [] op = "create_client" -> "client"
      [] op = "submit_message" -> "message"

ListOf(kind) ==
    CASE kind = "project" -> "list_projects"
      [] kind = "testimonial" -> "list_testimonials"
      [] kind = "client" -> "list_clients"
      [] OTHER -> "no listing"

SchemaOf(kind) ==
    CASE kind = "project" -> Project
      [] kind = "testimonial" -> Testimonial
      [] kind = "client" -> Client
      [] kind = "message" -> Message

Without(r, k) == [f \in DOMAIN r \ {k} |-> r[f]]

IsPrefix(s, t) == Len(s) <= Len(t) /\ SubSeq(t, 1, Len(s)) = s

CallsOf(fn) == {i \in DOMAIN last.calls : last.calls[i].fn = fn}

\* C1: a seed request is answered 401, makes no create_document call and
\* changes no collection whenever ADMIN_TOKEN is unset or empty, or the
\* X-Admin-Token header is absent or differs from it.
C1_SeedLocked ==
    [][(/\ last'.op = "seed_demo_content"
        /\ \/ env.ADMIN_TOKEN \in {None, ""}
           \/ last'.req = None
           \/ last'.req # env.ADMIN_TOKEN)
       => (/\ last'.status = 401
           /\ last'.calls = <<>>
           /\ store' = store)]_vars

C1_Witness ==
    /\ last.op = "seed_demo_content"
    /\ last.status = 401
    /\ env.ADMIN_TOKEN = "s3cret"
    /\ last.req = None
    /\ db # None

\* C2: a seed request that passes the token check attempts each of the 9
\* samples exactly once, in the order 4 projects, 2 testimonials, 3 clients,
\* whatever subset of the inserts fails; every sample whose insert succeeded
\* is in its collection afterwards, nothing else is added, and the answer is
\* {status: "ok"}.
C2_SeedNeverAborts ==
    [][(/\ last'.op = "seed_demo_content"
        /\ env.ADMIN_TOKEN \notin {None, ""}
        /\ last'.req = env.ADMIN_TOKEN)
       => (/\ last'.status = 200
           /\ last'.body = [status |-> "ok"]
           /\ Len(last'.calls) = 9
           /\ [i \in 1..9 |-> Samples[i].collection]
                = <<"project", "project", "project", "project",
                    "testimonial", "testimonial", "client", "client", "client">>
           /\ \A i \in 1..9 :
                last'.calls[i].fn = "create_document" /\ last'.calls[i].arg = i
           /\ \A c \in Collections :
                LET succeeded == {i \in 1..9 : /\ Samples[i].collection = c
                                               /\ last'.calls[i].result = "ok"}
                IN  /\ IsPrefix(store[c], store'[c])
                    /\ Len(store'[c]) = Len(store[c]) + Cardinality(succeeded)
                    /\ \A i \in succeeded :
                        \E j \in (Len(store[c]) + 1)..Len(store'[c]) :
                            Without(store'[c][j], "_id")
                                = Construct(Samples[i].schema, Samples[i].payload))]_vars

C2_Witness ==
    /\ last.op = "seed_demo_content"
    /\ last.status = 200
    /\ Len(last.calls) = 9
    /\ last.calls[1].result = "error"
    /\ last.calls[5].result = "error"
    /\ last.calls[4].result = "ok"
    /\ last.calls[9].result = "ok"
    /\ Len(store["project"]) >= 1
    /\ Len(store["client"]) >= 1

\* C3: once the insert of a message has succeeded, the answer is
\* {id, status: "received"} with the id of the inserted document, whatever
\* the notification did, and the message is stored as validated.
C3_NotificationNeverFails ==
    (/\ last.op = "submit_message"
     /\ last.calls # <<>>
     /\ last.calls[1].result = "ok")
    => (/\ last.status = 200
        /\ DOMAIN last.body = {"id", "status"}
        /\ last.body.status = "received"
        /\ Len(store["message"]) >= 1
        /\ LET doc == store["message"][Len(store["message"])]
           IN  /\ last.body.id = StrObjectId(doc["_id"])
               /\ Without(doc, "_id") = Construct(Message, last.req))

C3_Witness ==
    /\ last.op = "submit_message"
    /\ last.status = 200
    /\ Len(last.calls) = 2
    /\ last.calls[2].fn = "requests.post"
    /\ last.calls[2].result = "timeout"

\* C4 as stated: a created record is listed (matching filter, sufficient
\* limit) with its id and exactly the submitted fields, no more and no fewer.
C4_ExactlySubmittedFields ==
    \A c \in created :
        /\ Len(c.id) > 0
        /\ (/\ last.status = 200
            /\ last.op = ListOf(c.kind)
            /\ ("limit" \in DOMAIN last.req => last.req["limit"] >= Len(store[c.kind]))
            /\ \A n \in DOMAIN store[c.kind] :
                LET doc == store[c.kind][n]
                IN  StrObjectId(doc["_id"]) = c.id =>
                        /\ "category" \in DOMAIN last.req => doc["category"] = last.req["category"]
                        /\ "featured" \in DOMAIN last.req => doc["featured"] = last.req["featured"])
           => \E i \in DOMAIN last.body :
                /\ last.body[i]["id"] = c.id
                /\ DOMAIN last.body[i] \ {"id"} = DOMAIN c.payload
                /\ \A f \in DOMAIN c.payload : last.body[i][f] = c.payload[f]

\* C4 amended: a creation endpoint answers a non-empty string id; for a
\* project, testimonial or client a later listing of its kind (matching
\* filter, sufficient limit) includes a record with that id whose other
\* fields are exactly the fields of the schema: the submitted value of each
\* schema field that was submitted (a URL in its validated form), the default
\* of each optional field that was not, and no field the schema does not
\* know.  Messages have no listing endpoint.
C4_ValidatedFields ==
    \A c \in created :
        /\ Len(c.id) > 0
        /\ c.kind = "message" => \A op \in ListOps : Listed(op) # c.kind
        /\ (/\ last.status = 200
            /\ last.op = ListOf(c.kind)
            /\ ("limit" \in DOMAIN last.req => last.req["limit"] >= Len(store[c.kind]))
            /\ \A n \in DOMAIN store[c.kind] :
                LET doc == store[c.kind][n]
                IN  StrObjectId(doc["_id"]) = c.id =>
                        /\ "category" \in DOMAIN last.req => doc["category"] = last.req["category"]
                        /\ "featured" \in DOMAIN last.req => doc["featured"] = last.req["featured"])
           => \E i \in DOMAIN last.body :
                /\ last.body[i]["id"] = c.id
                /\ Without(last.body[i], "id") = Construct(SchemaOf(c.kind), c.payload)

C4_Witness ==
    /\ last.op = "list_projects"
    /\ last.status = 200
    /\ "featured" \in DOMAIN last.req
    /\ Len(store["project"]) >= 2
    /\ \E c \in created :
        /\ c.kind = "project"
        /\ DOMAIN c.payload = {"title", "category"}
        /\ \E i \in DOMAIN last.body :
            last.body[i]["id"] = c.id /\ last.body[i]["tags"] = <<>>

\* C5: a listing that is given limit = N >= 0 answers at most N records.
C5_AtMostLimit ==
    (/\ last.op \in ListOps
     /\ last.status = 200
     /\ "limit" \in DOMAIN last.req)
    => Len(last.body) <= last.req["limit"]

C5_Witness ==
    /\ last.op = "list_projects"
    /\ last.status = 200
    /\ "limit" \in DOMAIN last.req
    /\ DOMAIN last.req = {"limit"}
    /\ Len(store["project"]) > last.req["limit"]
    /\ Len(last.body) = last.req["limit"]

C6_Required(op) ==
    CASE op = "create_project" -> {"title", "category"}
      [] op = "create_testimonial" -> {"name", "quote"}
      [] op = "create_client" -> {"name"}
      [] op = "submit_message" -> {"name", "email", "message"}

C6_Malformed(payload) ==
    \E f \in DOMAIN payload \cap {"image_url", "video_url", "avatar_url", "website",
                                  "logo_url", "email"} :
        payload[f] \in {"not a url", "not an email"}

\* C6: a creation request whose payload lacks a required field or carries a
\* malformed email or URL is answered 4xx, makes no call (no create_document,
\* no webhook) and leaves every collection as it was.
C6_InvalidNeverStored ==
    [][(/\ last'.op \in CreateOps
        /\ \/ ~(C6_Required(last'.op) \subseteq DOMAIN last'.req)
           \/ C6_Malformed(last'.req))
       => (/\ last'.status \in 400..499
           /\ last'.calls = <<>>
           /\ store' = store)]_vars

C6_Witness ==
    /\ last.op = "submit_message"
    /\ last.status = 422
    /\ "email" \in DOMAIN last.req
    /\ last.req["email"] = "not an email"
    /\ Truthy(env.EMAIL_WEBHOOK_URL)
    /\ db # None

\* C7 as stated: featured and every supplied category, the empty string
\* included, select only the records that carry exactly those values.
C7_EveryCategoryFilters ==
    (last.op = "list_projects" /\ last.status = 200)
    => \A i \in DOMAIN last.body :
        /\ "featured" \in DOMAIN last.req => last.body[i]["featured"] = last.req["featured"]
        /\ "category" \in DOMAIN last.req => last.body[i]["category"] = last.req["category"]

\* C7 amended: featured=true answers only records whose featured is true,
\* featured=false only records whose featured is false, and a non-empty
\* category only records whose category is that exact string; both given,
\* both hold.  An empty category is treated as no category: the answer is
\* as large as the featured condition and the limit alone allow.
C7_NonEmptyCategoryFilters ==
    (last.op = "list_projects" /\ last.status = 200)
    => /\ \A i \in DOMAIN last.body :
            /\ "featured" \in DOMAIN last.req =>
                    last.body[i]["featured"] = last.req["featured"]
            /\ ("category" \in DOMAIN last.req /\ last.req["category"] # "") =>
                    last.body[i]["category"] = last.req["category"]
       /\ ("category" \in DOMAIN last.req /\ last.req["category"] = "") =>
            LET candidates ==
                    {n \in DOMAIN store["project"] :
                        "featured" \in DOMAIN last.req =>
                            store["project"][n]["featured"] = last.req["featured"]}
                limit == IF "limit" \in DOMAIN last.req
                         THEN last.req["limit"]
                         ELSE DefaultProjectLimit
            IN  Len(last.body) = IF Cardinality(candidates) < limit
                                 THEN Cardinality(candidates)
                                 ELSE limit

C7_Witness ==
    /\ last.op = "list_projects"
    /\ last.status = 200
    /\ DOMAIN last.req = {"category", "featured"}
    /\ last.req["category"] = "Motion"
    /\ last.req["featured"] = TRUE
    /\ Len(last.body) = 1
    /\ Len(store["project"]) = 2

\* C8: GET /test always answers 200; a missing handle and a raising
\* list_collection_names appear as values of the database field; collections
\* holds the first 10 names at most.
C8_TestNeverFails ==
    last.op = "test_database"
    => /\ last.status = 200
       /\ Len(last.body.collections) <= 10
       /\ IsPrefix(last.body.collections,
                   list_collection_names(store, last.req.extra))
       /\ db = None =>
            /\ last.body.database = "Available but not initialized"
            /\ last.body.collections = <<>>
       /\ (db # None /\ last.req.fault = "list_collection_names") =>
            /\ last.body.database = "Connected but Error"
            /\ last.body.collections = <<>>
       /\ (db # None /\ last.req.fault = "none") =>
            Len(last.body.collections)
                = IF Len(list_collection_names(store, last.req.extra)) < 10
                  THEN Len(list_collection_names(store, last.req.extra))
                  ELSE 10

C8_Witness ==
    /\ last.op = "test_database"
    /\ Len(last.body.collections) = 10
    /\ Len(list_collection_names(store, last.req.extra)) > 10
    /\ last.body.collections[1] = "project"

\* C9: no request removes or changes a stored document; a creation request
\* answered 200 adds exactly one document, to its own collection; listings,
\* the root and /test change no collection.
C9_DocumentsImmutable ==
    [][/\ \A c \in Collections : IsPrefix(store[c], store'[c])
       /\ (last'.op \in CreateOps /\ last'.status = 200) =>
            /\ Len(store'[Inserted(last'.op)]) = Len(store[Inserted(last'.op)]) + 1
            /\ \A c \in Collections \ {Inserted(last'.op)} : store'[c] = store[c]
       /\ last'.op \in ReadOps => store' = store]_vars

C9_Witness ==
    /\ last.op = "list_clients"
    /\ last.status = 200
    /\ Len(store["client"]) = 1
    /\ Len(store["message"]) = 1

\* C10: a message request that reaches the handler calls create_document
\* exactly once and first, calls the webhook at most once, and only after a
\* successful insert with a webhook URL configured; a failed insert is
\* answered 500 with no webhook call and no second attempt.
C10_InsertOnceThenNotify ==
    (last.op = "submit_message" /\ last.status # 422)
    => /\ Cardinality(CallsOf("create_document")) = 1
       /\ last.calls[1].fn = "create_document"
       /\ Cardinality(CallsOf("requests.post")) <= 1
       /\ CallsOf("requests.post") # {} =>
            /\ last.calls[1].result = "ok"
            /\ env.EMAIL_WEBHOOK_URL \notin {None, ""}
       /\ last.calls[1].result = "error" =>
            /\ last.status = 500
            /\ Len(last.calls) = 1

C10_Witness ==
    /\ last.op = "submit_message"
    /\ last.status = 500
    /\ env.EMAIL_WEBHOOK_URL \notin {None, ""}
    /\ db # None
    /\ Len(store["message"]) = 1

====
